---------------------------- MODULE Spec2Model ----------------------------
(***************************************************************************)
(* State-machine model of src/App.tsx: the image collection of the App     *)
(* component, its object-URL preview handles, the upscale promises started *)
(* by paste, and the PDF generation promise.                               *)
(*                                                                         *)
(* Every event handler and every promise continuation is one atomic step   *)
(* (JavaScript runs each to completion), and a state update queued by a    *)
(* step is applied in that step.  Entry ids (`${file.name}-${Math.random()}`)*)
(* and object URLs are fresh values, drawn here from counters.             *)
(***************************************************************************)
EXTENDS Integers, Sequences, FiniteSets, TLC

\* Number of entry ids one session may allocate.
MaxIds == 3
\* Largest clipboard / file-list batch that is enumerated.
MaxBatch == 2
\* Cap on concurrently pending generatePdfFromImages promises.
MaxPdfInFlight == 2

\* Every entry owns at most two object URLs: the original and the upscaled one.
MaxUrls == 2 * MaxIds

Ids == 1..MaxIds
Urls == 1..MaxUrls

Null == "null"

VARIABLES
    managedImages,   \* useState<ManagedImage[]>: sequence of entries
    isGenerating,    \* useState<boolean>
    error,           \* useState<string | null>
    successMessage,  \* useState<string | null>
    mounted,         \* the component is mounted
    nextId,          \* next fresh entry id
    nextUrl,         \* next fresh object URL
    revokeCount,     \* per object URL: number of URL.revokeObjectURL calls
    transform,       \* per entry id: state of its upscaleImage promise
    pdfPending,      \* number of pending generatePdfFromImages promises
    pdfInput,        \* argument of the pending generatePdfFromImages call
    pasteOnly        \* no user operation other than paste has run so far

vars == <<managedImages, isGenerating, error, successMessage, mounted, nextId,
          nextUrl, revokeCount, transform, pdfPending, pdfInput, pasteOnly>>

-----------------------------------------------------------------------------
\* Data

\* A File object: the file admitted for entry `origin`, or its upscaled version.
OriginalFile(id) == [origin |-> id, upscaled |-> FALSE]
UpscaledFile(id) == [origin |-> id, upscaled |-> TRUE]

ClipboardKinds == {"image", "imageNoBlob", "other"}
FileKinds == {"image", "other"}

Batches(kinds) == UNION {[1..n -> kinds] : n \in 1..MaxBatch}

Msg(kind, n) == [kind |-> kind, n |-> n]
NoMsg == Msg(Null, 0)

IdsOf(imgs) == {imgs[i].id : i \in DOMAIN imgs}
Created == 1..(nextUrl - 1)
Live == {u \in Created : revokeCount[u] = 0}
HeldBy(u) == {i \in DOMAIN managedImages : managedImages[i].previewUrl = u}

\* URL.revokeObjectURL applied once per element of the sequence `urls`.
Revoke(rc, urls) ==
    [u \in Urls |-> rc[u] + Cardinality({i \in DOMAIN urls : urls[i] = u})]

PreviewUrls(imgs) == [i \in DOMAIN imgs |-> imgs[i].previewUrl]

-----------------------------------------------------------------------------
Init ==
    /\ managedImages = <<>>
    /\ isGenerating = FALSE
    /\ error = Null
    /\ successMessage = NoMsg
    /\ mounted = TRUE
    /\ nextId = 1
    /\ nextUrl = 1
    /\ revokeCount = [u \in Urls |-> 0]
    /\ transform = [i \in Ids |-> "none"]
    /\ pdfPending = 0
    /\ pdfInput = <<>>
    /\ pasteOnly = TRUE

-----------------------------------------------------------------------------
\* handlePaste (lines 29-81)

\* Clipboard items kept by the loop of lines 34-44: image type and a blob.
PastedImages(items) == SelectSeq(items, LAMBDA k : k = "image")

\* newEntries of lines 50-55: one entry per pasted file, fresh id and URL.
PasteEntries(n, id0, url0) ==
    [k \in 1..n |-> [id |-> id0 + k - 1,
                     file |-> OriginalFile(id0 + k - 1),
                     previewUrl |-> url0 + k - 1,
                     status |-> "upscaling",
                     errorMessage |-> Null]]

Paste(items) ==
    LET n == Len(PastedImages(items))
        newEntries == PasteEntries(n, nextId, nextUrl)
    IN  /\ mounted
        /\ nextId + n - 1 <= MaxIds
        /\ IF n > 0
           THEN /\ successMessage' = Msg("image(s) pasted. Upscaling...", n)
                /\ error' = Null
                /\ managedImages' = managedImages \o newEntries
                /\ transform' = [i \in Ids |->
                                   IF i \in IdsOf(newEntries) THEN "pending"
                                   ELSE transform[i]]
                /\ nextId' = nextId + n
                /\ nextUrl' = nextUrl + n
           ELSE UNCHANGED <<successMessage, error, managedImages, transform,
                            nextId, nextUrl>>
        /\ UNCHANGED <<isGenerating, mounted, revokeCount, pdfPending,
                       pdfInput, pasteOnly>>

\* Faulty variant: the updater forgets the id test and rewrites every entry.
ApplyUpscaled_AllItems(prev, id, newPreviewUrl) ==
    [i \in DOMAIN prev |->
        [prev[i] EXCEPT !.file = UpscaledFile(id),
                        !.previewUrl = newPreviewUrl,
                        !.status = "ready"]]

\* The updater of lines 63-69: the entry with this id gets the upscaled file,
\* the new preview URL and status ready; every other entry is kept.
ApplyUpscaled(prev, id, newPreviewUrl) ==
    [i \in DOMAIN prev |->
        IF prev[i].id = id
        THEN [prev[i] EXCEPT !.file = UpscaledFile(id),
                             !.previewUrl = newPreviewUrl,
                             !.status = "ready"]
        ELSE prev[i]]

\* Faulty variant: the old preview URL is not revoked on replacement.
RevokedByUpscaled_Nothing(prev, id) == <<>>

\* The URLs revoked on line 65 while that updater maps over prev.
RevokedByUpscaled(prev, id) ==
    PreviewUrls(SelectSeq(prev, LAMBDA img : img.id = id))

\* Faulty variant: the updater forgets the id test and marks every entry.
ApplyFailed_AllItems(prev, id) ==
    [i \in DOMAIN prev |->
        [prev[i] EXCEPT !.status = "error",
                        !.errorMessage = "Upscaling failed."]]

\* Faulty variant: an update that inserts the entry when the id is missing.
ApplyFailed_Upsert(prev, id) ==
    IF id \in IdsOf(prev)
    THEN [i \in DOMAIN prev |->
            IF prev[i].id = id
            THEN [prev[i] EXCEPT !.status = "error",
                                 !.errorMessage = "Upscaling failed."]
            ELSE prev[i]]
    ELSE Append(prev, [id |-> id, file |-> OriginalFile(id), previewUrl |-> 1,
                       status |-> "error",
                       errorMessage |-> "Upscaling failed."])

\* Faulty variant: the error message is recorded but the status is not set.
ApplyFailed_KeepStatus(prev, id) ==
    [i \in DOMAIN prev |->
        IF prev[i].id = id
        THEN [prev[i] EXCEPT !.errorMessage = "Upscaling failed."]
        ELSE prev[i]]

\* Faulty variant: the status is set but no error message is recorded.
ApplyFailed_NoDetail(prev, id) ==
    [i \in DOMAIN prev |->
        IF prev[i].id = id THEN [prev[i] EXCEPT !.status = "error"]
        ELSE prev[i]]

\* Faulty variant: the error message is written to every entry, the status
\* only to the entry that failed.
ApplyFailed_FromEntry(prev, id) ==
    [i \in DOMAIN prev |->
        [prev[i] EXCEPT !.status = IF prev[i].id = id THEN "error" ELSE @,
                        !.errorMessage = "Upscaling failed."]]

\* The updater of lines 74-76.
ApplyFailed(prev, id) ==
    [i \in DOMAIN prev |->
        IF prev[i].id = id
        THEN [prev[i] EXCEPT !.status = "error",
                             !.errorMessage = "Upscaling failed."]
        ELSE prev[i]]

\* .then continuation of upscaleImage(entry.file), lines 61-71.  The new URL
\* is created on line 62 whether or not the component is still mounted; the
\* state setters of an unmounted component do nothing.
UpscaleResolved(id) ==
    /\ transform[id] = "pending"
    /\ transform' = [transform EXCEPT ![id] = "fulfilled"]
    /\ nextUrl' = nextUrl + 1
    /\ IF mounted
       THEN /\ managedImages' = ApplyUpscaled(managedImages, id, nextUrl)
            /\ revokeCount' = Revoke(revokeCount,
                                     RevokedByUpscaled(managedImages, id))
            /\ successMessage' = Msg("Image upscaling complete!", 0)
       ELSE UNCHANGED <<managedImages, revokeCount, successMessage>>
    /\ UNCHANGED <<isGenerating, error, mounted, nextId, pdfPending, pdfInput,
                   pasteOnly>>

\* .catch continuation, lines 72-78.
UpscaleRejected(id) ==
    /\ transform[id] = "pending"
    /\ transform' = [transform EXCEPT ![id] = "rejected"]
    /\ IF mounted
       THEN /\ managedImages' = ApplyFailed(managedImages, id)
            /\ error' = "Some images could not be upscaled."
       ELSE UNCHANGED <<managedImages, error>>
    /\ UNCHANGED <<isGenerating, successMessage, mounted, nextId, nextUrl,
                   revokeCount, pdfPending, pdfInput, pasteOnly>>

-----------------------------------------------------------------------------
\* handleFileChange (lines 90-112)

ValidImages(files) == SelectSeq(files, LAMBDA k : k = "image")

\* newEntries of lines 99-104.
FileEntries(n, id0, url0) ==
    [k \in 1..n |-> [id |-> id0 + k - 1,
                     file |-> OriginalFile(id0 + k - 1),
                     previewUrl |-> url0 + k - 1,
                     status |-> "ready",
                     errorMessage |-> Null]]

FileChange(files) ==
    LET n == Len(ValidImages(files))
        newEntries == FileEntries(n, nextId, nextUrl)
    IN  /\ mounted
        /\ nextId + n - 1 <= MaxIds
        /\ error' = IF n # Len(files)
                    THEN "Some selected files were not valid images and have been ignored."
                    ELSE Null
        /\ managedImages' = managedImages \o newEntries
        /\ successMessage' = IF n > 0 THEN Msg("image(s) selected.", n)
                             ELSE NoMsg
        /\ nextId' = nextId + n
        /\ nextUrl' = nextUrl + n
        /\ pasteOnly' = FALSE
        /\ UNCHANGED <<isGenerating, mounted, revokeCount, transform, pdfPending, pdfInput>>

-----------------------------------------------------------------------------
\* handleClearImages (lines 137-145) and handleRemoveImage (lines 147-155).
\* Both buttons are rendered only while the collection is non-empty (line 210).

ClearImages ==
    /\ mounted
    /\ Len(managedImages) > 0
    /\ revokeCount' = Revoke(revokeCount, PreviewUrls(managedImages))
    /\ managedImages' = <<>>
    /\ error' = Null
    /\ successMessage' = NoMsg
    /\ pasteOnly' = FALSE
    /\ UNCHANGED <<isGenerating, mounted, nextId, nextUrl, transform, pdfPending, pdfInput>>

\* Faulty variant: swap-remove, the last entry takes the removed entry's place.
RemoveById_SwapLast(prev, idToRemove) ==
    LET n == Len(prev)
        swapped == [i \in 1..n |-> IF prev[i].id = idToRemove THEN prev[n]
                                    ELSE prev[i]]
    IN  IF idToRemove \in IdsOf(prev) THEN SubSeq(swapped, 1, n - 1) ELSE prev

\* prev.filter(img => img.id !== idToRemove), line 153.
RemoveById(prev, idToRemove) ==
    SelectSeq(prev, LAMBDA img : img.id # idToRemove)

\* Faulty variant: the removed entry's URL is never revoked.
RevokedByRemove_Nothing(prev, idToRemove) == <<>>

\* prev.find(...) and the revoke of lines 149-152: the first match, if any.
RevokedByRemove(prev, idToRemove) ==
    LET hits == SelectSeq(prev, LAMBDA img : img.id = idToRemove)
    IN  IF Len(hits) > 0 THEN <<hits[1].previewUrl>> ELSE <<>>

RemoveImage(idToRemove) ==
    /\ mounted
    /\ idToRemove \in IdsOf(managedImages)
    /\ revokeCount' = Revoke(revokeCount,
                             RevokedByRemove(managedImages, idToRemove))
    /\ managedImages' = RemoveById(managedImages, idToRemove)
    /\ pasteOnly' = FALSE
    /\ UNCHANGED <<isGenerating, error, successMessage, mounted, nextId,
                   nextUrl, transform, pdfPending, pdfInput>>

-----------------------------------------------------------------------------
\* handleGeneratePdf (lines 114-135) behind its button (lines 250-252)

\* Faulty variant: the status filter is missing.
ImagesToProcess_AllItems(imgs) == [i \in DOMAIN imgs |-> imgs[i].file]

\* Faulty variant: the filter drops only the entries that are upscaling.
ImagesToProcess_NotUpscaling(imgs) ==
    LET kept == SelectSeq(imgs, LAMBDA img : img.status # "upscaling")
    IN  [i \in DOMAIN kept |-> kept[i].file]

\* imagesToProcess, lines 115-117.
ImagesToProcess(imgs) ==
    LET ready == SelectSeq(imgs, LAMBDA img : img.status = "ready")
    IN  [i \in DOMAIN ready |-> ready[i].file]

\* Faulty variant: the button ignores entries that are still upscaling.
GenerateDisabled_OnlyGenerating(generating, imgs) == generating

\* Faulty variant: the button ignores a generation that is running.
GenerateDisabled_OnlyUpscaling(generating, imgs) ==
    \E i \in DOMAIN imgs : imgs[i].status = "upscaling"

\* The disabled attribute of the Generate PDF button, line 252.
GenerateDisabled(generating, imgs) ==
    generating \/ \E i \in DOMAIN imgs : imgs[i].status = "upscaling"

GeneratePdf ==
    /\ mounted
    /\ Len(managedImages) > 0
    /\ ~GenerateDisabled(isGenerating, managedImages)
    /\ pdfPending < MaxPdfInFlight
    /\ IF Len(ImagesToProcess(managedImages)) = 0
       THEN /\ error' = "Please add at least one ready image. If images are upscaling, please wait."
            /\ UNCHANGED <<isGenerating, successMessage, pdfPending, pdfInput>>
       ELSE /\ isGenerating' = TRUE
            /\ error' = Null
            /\ successMessage' = NoMsg
            /\ pdfPending' = pdfPending + 1
            /\ pdfInput' = ImagesToProcess(managedImages)
    /\ pasteOnly' = FALSE
    /\ UNCHANGED <<managedImages, mounted, nextId, nextUrl, revokeCount,
                   transform>>

\* await generatePdfFromImages resolves: line 129, then finally, line 133.
PdfResolved ==
    /\ pdfPending > 0
    /\ pdfPending' = pdfPending - 1
    /\ pdfInput' = <<>>
    /\ IF mounted
       THEN /\ successMessage' = Msg("PDF generated successfully!", 0)
            /\ isGenerating' = FALSE
       ELSE UNCHANGED <<successMessage, isGenerating>>
    /\ UNCHANGED <<managedImages, error, mounted, nextId, nextUrl,
                   revokeCount, transform, pasteOnly>>

\* Faulty variant: the failure handling also empties the collection.
PdfRejected_ClearsCollection ==
    /\ pdfPending > 0
    /\ pdfPending' = pdfPending - 1
    /\ pdfInput' = <<>>
    /\ IF mounted
       THEN /\ error' = "Failed to generate PDF"
            /\ isGenerating' = FALSE
            /\ managedImages' = <<>>
       ELSE UNCHANGED <<error, isGenerating, managedImages>>
    /\ UNCHANGED <<successMessage, mounted, nextId, nextUrl, revokeCount,
                   transform, pasteOnly>>

\* Faulty variant: no finally block, the flag is reset on success only.
PdfRejected_KeepsGenerating ==
    /\ pdfPending > 0
    /\ pdfPending' = pdfPending - 1
    /\ pdfInput' = <<>>
    /\ IF mounted
       THEN error' = "Failed to generate PDF"
       ELSE UNCHANGED error
    /\ UNCHANGED <<managedImages, isGenerating, successMessage, mounted,
                   nextId, nextUrl, revokeCount, transform, pasteOnly>>

\* await generatePdfFromImages rejects: line 131, then finally, line 133.
PdfRejected ==
    /\ pdfPending > 0
    /\ pdfPending' = pdfPending - 1
    /\ pdfInput' = <<>>
    /\ IF mounted
       THEN /\ error' = "Failed to generate PDF"
            /\ isGenerating' = FALSE
       ELSE UNCHANGED <<error, isGenerating>>
    /\ UNCHANGED <<managedImages, successMessage, mounted, nextId, nextUrl,
                   revokeCount, transform, pasteOnly>>

-----------------------------------------------------------------------------
\* Unmount: the cleanup of the effect of lines 22-26.  The effect has an
\* empty dependency list, so its cleanup closes over the managedImages of the
\* first render, the initial state of line 15.
CapturedManagedImages == <<>>

Unmount ==
    /\ mounted
    /\ mounted' = FALSE
    /\ revokeCount' = Revoke(revokeCount, PreviewUrls(CapturedManagedImages))
    /\ pasteOnly' = FALSE
    /\ UNCHANGED <<managedImages, isGenerating, error, successMessage, nextId,
                   nextUrl, transform, pdfPending, pdfInput>>

-----------------------------------------------------------------------------
Next ==
    \/ \E items \in Batches(ClipboardKinds) : Paste(items)
    \/ \E files \in Batches(FileKinds) : FileChange(files)
    \/ \E id \in Ids : UpscaleResolved(id)
    \/ \E id \in Ids : UpscaleRejected(id)
    \/ \E id \in Ids : RemoveImage(id)
    \/ ClearImages
    \/ GeneratePdf
    \/ PdfResolved
    \/ PdfRejected
    \/ Unmount

Spec == Init /\ [][Next]_vars

-----------------------------------------------------------------------------
\* Properties

Item(imgs, id) == imgs[CHOOSE i \in DOMAIN imgs : imgs[i].id = id]

\* Entry ids admitted by paste have had upscaleImage called for them.
Pasted(id) == transform[id] # "none"

NoTransformSettled == \A id \in Ids : transform[id] \in {"none", "pending"}

\* The continuation (then or catch) of entry id's upscaleImage runs in this step.
Settles(id) == transform[id] = "pending" /\ transform'[id] # "pending"

HasReady(imgs) == \E i \in DOMAIN imgs : imgs[i].status = "ready"
HasUpscaling(imgs) == \E i \in DOMAIN imgs : imgs[i].status = "upscaling"

\* C1: as long as no transform has settled, whatever admissions, removals and
\* clears have run, the number of live preview URLs equals the number of
\* entries in the collection, and no URL has been revoked more than once.
C1_LiveHandlesMatchItems ==
    NoTransformSettled =>
        /\ Cardinality(Live) = Len(managedImages)
        /\ \A u \in Urls : revokeCount[u] <= 1

\* C1 witness: entries are held, another entry's URL has been revoked, and an
\* entry with its transform still in flight has been removed.
C1_Witness ==
    /\ NoTransformSettled
    /\ Len(managedImages) > 0
    /\ \E u \in Created : revokeCount[u] = 1
    /\ \E id \in Ids : transform[id] = "pending" /\ id \notin IdsOf(managedImages)

\* C2: while the component is mounted, every preview URL that was created is
\* either held by exactly one entry of the collection and not revoked, or held
\* by none and revoked exactly once.
C2_EveryHandleHeldOrReclaimedOnce ==
    mounted =>
        \A u \in Created :
            \/ Cardinality(HeldBy(u)) = 1 /\ revokeCount[u] = 0
            \/ HeldBy(u) = {} /\ revokeCount[u] = 1

\* C3: the unmount step revokes the preview URL of every entry that is in the
\* collection at that moment.
C3_TeardownReclaimsHeldHandles ==
    [][(mounted /\ ~mounted') =>
          \A i \in DOMAIN managedImages :
              revokeCount'[managedImages[i].previewUrl] = 1]_vars

\* C4: an entry admitted by paste enters the collection with status upscaling,
\* and the only status changes any step makes to it are upscaling -> ready and
\* upscaling -> error; a ready or error entry keeps its status in every step.
C4_PastedStatusChangesOnce ==
    [][\A id \in Ids :
          Pasted(id)' =>
            /\ (id \notin IdsOf(managedImages) /\ id \in IdsOf(managedImages'))
                  => Item(managedImages', id).status = "upscaling"
            /\ (id \in IdsOf(managedImages) /\ id \in IdsOf(managedImages')
                  /\ Item(managedImages', id).status # Item(managedImages, id).status)
                  => /\ Item(managedImages, id).status = "upscaling"
                     /\ Item(managedImages', id).status \in {"ready", "error"}]_vars

\* C4 witness: all transforms have settled; one pasted entry is in error
\* after its transform was rejected and another is ready after its transform
\* was fulfilled, and generatePdfFromImages has been called since.
C4_Witness ==
    /\ \A id \in Ids : transform[id] # "pending"
    /\ pdfPending = 1
    /\ \E id, other \in IdsOf(managedImages) :
          /\ transform[id] = "rejected"
          /\ Item(managedImages, id).status = "error"
          /\ transform[other] = "fulfilled"
          /\ Item(managedImages, other).status = "ready"

\* C5: an entry admitted by file selection enters the collection with status
\* ready, and no step changes its status, file or preview URL while it stays
\* in the collection.
C5_SelectedItemsNeverChange ==
    [][\A id \in Ids :
          ~Pasted(id)' =>
            /\ (id \notin IdsOf(managedImages) /\ id \in IdsOf(managedImages'))
                  => Item(managedImages', id).status = "ready"
            /\ (id \in IdsOf(managedImages) /\ id \in IdsOf(managedImages'))
                  => /\ Item(managedImages', id).status = Item(managedImages, id).status
                     /\ Item(managedImages', id).file = Item(managedImages, id).file
                     /\ Item(managedImages', id).previewUrl
                            = Item(managedImages, id).previewUrl]_vars

\* C5 witness: a selected entry is in the collection, ready with its original
\* file and URL, and the transforms of two entries pasted after it have
\* settled, one fulfilled and one rejected.
C5_Witness ==
    /\ mounted
    /\ \E id \in IdsOf(managedImages) :
          /\ ~Pasted(id)
          /\ Item(managedImages, id).status = "ready"
          /\ Item(managedImages, id).file = OriginalFile(id)
          /\ revokeCount[Item(managedImages, id).previewUrl] = 0
          /\ \E p, q \in IdsOf(managedImages) :
                /\ p > id /\ q > id
                /\ transform[p] = "fulfilled" /\ transform[q] = "rejected"

\* C6: when the transform of an entry that is no longer in the collection
\* settles, with success or failure, the collection is unchanged by that step.
C6_StaleSettlementIsNoOp ==
    [][\A id \in Ids :
          (mounted /\ Settles(id) /\ id \notin IdsOf(managedImages))
              => managedImages' = managedImages]_vars

\* C6 witness: the transform of a removed entry has succeeded while other
\* entries were in the collection: the URL the continuation created is held by
\* no entry, which happens only when the continuation finds its entry gone.
C6_Witness ==
    /\ mounted
    /\ Len(managedImages) > 0
    /\ \E id \in Ids :
          /\ transform[id] = "fulfilled"
          /\ id \notin IdsOf(managedImages)
          /\ \E u \in Live : HeldBy(u) = {}

\* Scenario D: one image was pasted, it has been removed, and its transform is
\* still in flight.
ScenarioD ==
    /\ mounted
    /\ nextId = 2
    /\ managedImages = <<>>
    /\ transform[1] = "pending"

\* C7: in Scenario D the settlement of the stale transform leaves the
\* collection empty and leaves the error message as it was.
C7_StaleSettlementSetsNoError ==
    [][(ScenarioD /\ Settles(1)) =>
          (managedImages' = <<>> /\ error' = error)]_vars

\* C8: a step that calls generatePdfFromImages starts in a state where some
\* entry is ready and no entry is upscaling.
C8_AssemblyOnlyWhenReadyAndNoneUpscaling ==
    [][pdfPending' > pdfPending =>
          (HasReady(managedImages) /\ ~HasUpscaling(managedImages))]_vars

\* C8 witness: generatePdfFromImages has been called and is pending, with a
\* ready entry and an error entry in the collection.
C8_Witness ==
    /\ mounted
    /\ isGenerating
    /\ pdfPending = 1
    /\ HasReady(managedImages)
    /\ \E i \in DOMAIN managedImages : managedImages[i].status = "error"

\* Scenario B: the two pasted images are the collection, entry 1 ready after
\* its transform succeeded and entry 2 in error after its transform failed.
ScenarioB ==
    /\ mounted
    /\ nextId >= 3
    /\ IdsOf(managedImages) = {1, 2}
    /\ transform[1] = "fulfilled" /\ transform[2] = "rejected"
    /\ Item(managedImages, 1).status = "ready"
    /\ Item(managedImages, 2).status = "error"

\* C9 as claimed: in Scenario B no step calls generatePdfFromImages.
C9_ErrorItemBlocksAssembly ==
    [][ScenarioB => pdfPending' <= pdfPending]_vars

\* C9 as amended: in Scenario B with no generation running, a click on
\* Generate PDF calls generatePdfFromImages with the file of the ready entry
\* alone; the error entry neither blocks the call nor is part of its input.
C9_AssemblyRunsOnReadySubset ==
    [][(ScenarioB /\ ~isGenerating /\ GeneratePdf) =>
          /\ pdfPending' = pdfPending + 1
          /\ pdfInput' = <<Item(managedImages, 1).file>>]_vars

\* C9 witness: in Scenario B the click has called generatePdfFromImages.  The
\* click came after the failure of entry 2: the error message that failure set
\* has been cleared, which here only the click does.
C9_Witness ==
    /\ ScenarioB
    /\ nextId = 3
    /\ error = Null
    /\ isGenerating
    /\ pdfPending = 1
    /\ pdfInput = <<UpscaledFile(1)>>

\* C10: when two images were pasted and nothing else was done, and the
\* transform of entry 1 has succeeded and that of entry 2 has failed, in
\* whichever order, entry 1 is ready, entry 2 is in error and the error
\* message is set.
C10_ScenarioBOrderIndependent ==
    (mounted /\ pasteOnly /\ nextId = 3
        /\ transform[1] = "fulfilled" /\ transform[2] = "rejected")
    => /\ Len(managedImages) = 2
       /\ managedImages[1].id = 1 /\ managedImages[1].status = "ready"
       /\ managedImages[2].id = 2 /\ managedImages[2].status = "error"
       /\ error # Null

\* C10 witness: two images were pasted, nothing else was done, and both
\* transforms have settled, entry 1 with success and entry 2 with failure.
C10_Witness ==
    /\ mounted /\ pasteOnly /\ nextId = 3
    /\ transform[1] = "fulfilled" /\ transform[2] = "rejected"
    /\ managedImages[1].file = UpscaledFile(1)
    /\ managedImages[2].file = OriginalFile(2)

\* The files of the ready entries of imgs, front to back.
RECURSIVE ReadyContents(_)
ReadyContents(imgs) ==
    IF imgs = <<>> THEN <<>>
    ELSE (IF Head(imgs).status = "ready" THEN <<Head(imgs).file>> ELSE <<>>)
             \o ReadyContents(Tail(imgs))

\* C11: a step that calls generatePdfFromImages passes exactly the files of
\* the entries that are ready at that moment, in collection order: no file of
\* an upscaling or error entry, and every file of a ready entry.
C11_AssemblyInputIsReadySubset ==
    [][pdfPending' > pdfPending =>
          /\ pdfInput' = ReadyContents(managedImages)
          /\ \A i \in DOMAIN managedImages :
                (managedImages[i].status = "ready")
                    <=> (\E k \in DOMAIN pdfInput' :
                            pdfInput'[k] = managedImages[i].file)]_vars

\* C11 witness (Scenario A): three selected files are the collection and
\* generatePdfFromImages is pending with exactly those three, in admission
\* order.
C11_Witness ==
    /\ mounted
    /\ pdfPending = 1
    /\ Len(managedImages) = 3
    /\ \A i \in 1..3 : managedImages[i].id = i /\ ~Pasted(i)
    /\ pdfInput = <<OriginalFile(1), OriginalFile(2), OriginalFile(3)>>

\* C12: a file selection or a paste whose batch holds an item that is not an
\* image sets the error message, and still appends one entry per image of the
\* batch.
C12_RejectedItemsWarn ==
    [][/\ \A files \in Batches(FileKinds) :
            (FileChange(files) /\ \E k \in DOMAIN files : files[k] = "other")
                => /\ error' # Null
                   /\ Len(managedImages')
                        = Len(managedImages) + Len(ValidImages(files))
       /\ \A items \in Batches(ClipboardKinds) :
            (Paste(items) /\ \E k \in DOMAIN items : items[k] = "other")
                => /\ error' # Null
                   /\ Len(managedImages')
                        = Len(managedImages) + Len(PastedImages(items))]_vars

\* C13: the preview URL of every entry of the collection has not been
\* revoked and is the URL of no other entry; and a step that changes the URL
\* of an entry revokes the old URL in that same step.
C13_HeldHandleLiveAndUnshared ==
    /\ [](\A i \in DOMAIN managedImages :
            /\ managedImages[i].previewUrl \in Live
            /\ HeldBy(managedImages[i].previewUrl) = {i})
    /\ [][\A id \in IdsOf(managedImages) \cap IdsOf(managedImages') :
            Item(managedImages', id).previewUrl # Item(managedImages, id).previewUrl
                => /\ revokeCount[Item(managedImages, id).previewUrl] = 0
                   /\ revokeCount'[Item(managedImages, id).previewUrl] = 1
                   /\ revokeCount'[Item(managedImages', id).previewUrl] = 0]_vars

\* C13 witness: the transform of an entry of the collection has succeeded; the
\* entry holds the new URL, its first URL is revoked, and another entry sits
\* next to it.
C13_Witness ==
    /\ mounted
    /\ Len(managedImages) >= 2
    /\ \E i \in DOMAIN managedImages :
          /\ transform[managedImages[i].id] = "fulfilled"
          /\ managedImages[i].file = UpscaledFile(managedImages[i].id)
          /\ managedImages[i].previewUrl \in Live
          /\ \E u \in Created : u # managedImages[i].previewUrl
                                  /\ revokeCount[u] = 1

\* C14: when the transform of an entry of the collection fails, the entry gets
\* status error and a non-empty error message, keeps its file and its preview
\* URL, and that URL is not revoked.
C14_FailureKeepsContentAndHandle ==
    [][\A id \in IdsOf(managedImages) :
          (mounted /\ Settles(id) /\ transform'[id] = "rejected")
              => /\ id \in IdsOf(managedImages')
                 /\ Item(managedImages', id).status = "error"
                 /\ Item(managedImages', id).errorMessage \notin {Null, ""}
                 /\ Item(managedImages', id).file = Item(managedImages, id).file
                 /\ Item(managedImages', id).previewUrl
                        = Item(managedImages, id).previewUrl
                 /\ revokeCount'[Item(managedImages, id).previewUrl] = 0]_vars

\* C14 witness: an entry whose transform was rejected is in the collection in
\* status error, with its message, its original file and a live URL.
C14_Witness ==
    /\ mounted
    /\ \E id \in IdsOf(managedImages) :
          /\ transform[id] = "rejected"
          /\ Item(managedImages, id).status = "error"
          /\ Item(managedImages, id).errorMessage = "Upscaling failed."
          /\ Item(managedImages, id).file = OriginalFile(id)
          /\ Item(managedImages, id).previewUrl \in Live

\* C15: the settlement of one entry's transform leaves every other entry of
\* the collection in place with all its fields, and leaves the state of every
\* other transform as it was, so a pending one is still pending.
C15_SettlementLeavesOthersAlone ==
    [][\A id \in Ids :
          (mounted /\ Settles(id)) =>
              \A other \in Ids \ {id} :
                  /\ transform'[other] = transform[other]
                  /\ other \in IdsOf(managedImages)
                        => /\ other \in IdsOf(managedImages')
                           /\ Item(managedImages', other)
                                = Item(managedImages, other)]_vars

\* C15 witness: one pasted entry has failed and one has succeeded while a
\* third one, pasted with them, is still upscaling with its transform pending.
C15_Witness ==
    /\ mounted
    /\ \E a, b, c \in IdsOf(managedImages) :
          /\ transform[a] = "rejected" /\ transform[b] = "fulfilled"
          /\ transform[c] = "pending"
          /\ Item(managedImages, c).status = "upscaling"
          /\ Item(managedImages, c).file = OriginalFile(c)
          /\ Item(managedImages, c).previewUrl \in Live

IdSeq(imgs) == [i \in DOMAIN imgs |-> imgs[i].id]
Restrict(s, S) == SelectSeq(s, LAMBDA x : x \in S)

\* C16: in every step the entries that stay keep their relative order and
\* every new entry comes after all of them; a removal takes out exactly the
\* removed entry, and a settlement changes no position.
C16_OrderIsAdmissionOrder ==
    [][/\ \A id \in Ids :
            (mounted /\ Settles(id)) => IdSeq(managedImages') = IdSeq(managedImages)
       /\ \/ IdSeq(managedImages') = IdSeq(managedImages)
          \/ LET old == IdSeq(managedImages)
                 new == IdSeq(managedImages')
                 kept == IdsOf(managedImages) \cap IdsOf(managedImages')
             IN  /\ Restrict(new, kept) = Restrict(old, kept)
                 /\ \A i, j \in DOMAIN new :
                       (new[i] \in kept /\ new[j] \notin kept) => i < j
                 /\ \A id \in IdsOf(managedImages) \ IdsOf(managedImages') :
                       RemoveImage(id)
                           => new = Restrict(old, IdsOf(managedImages) \ {id})]_vars

\* C16 witness: three entries were admitted in two batches, the middle one
\* was removed and a transform has settled; the first and the last remain,
\* in that order.
C16_Witness ==
    /\ mounted
    /\ nextId = 4
    /\ IdSeq(managedImages) = <<1, 3>>
    /\ \E id \in {1, 3} : transform[id] \in {"fulfilled", "rejected"}

\* C17: at most one generatePdfFromImages promise is pending at any time.
C17_SingleAssemblyInFlight == pdfPending <= 1

\* C17 witness: a generation is pending while the collection has a ready
\* entry and none upscaling, so that only the running generation disables the
\* button.
C17_Witness ==
    /\ mounted
    /\ pdfPending = 1
    /\ HasReady(managedImages)
    /\ ~HasUpscaling(managedImages)
    /\ GenerateDisabled(isGenerating, managedImages)

\* C18: the handling of a failed generation sets the error message and leaves
\* the collection, with every field of every entry, and all revoke counts as
\* they were.
C18_AssemblyFailureLeavesCollection ==
    [][(mounted /\ PdfRejected) =>
          /\ managedImages' = managedImages
          /\ revokeCount' = revokeCount
          /\ error' = "Failed to generate PDF"]_vars

\* C18 witness: a generation has failed; its message is shown and the
\* collection still holds entries, one of them ready.
C18_Witness ==
    /\ mounted
    /\ error = "Failed to generate PDF"
    /\ pdfPending = 0
    /\ HasReady(managedImages)

\* C20: while the component is mounted, isGenerating is true exactly when a
\* generatePdfFromImages promise is pending.
C20_GeneratingFlagTracksAssembly ==
    mounted => (isGenerating <=> pdfPending > 0)

\* C20 witness: after a failed generation the flag is false again and, with a
\* ready entry and none upscaling, the button is enabled for a retry.
C20_Witness ==
    /\ mounted
    /\ error = "Failed to generate PDF"
    /\ ~isGenerating
    /\ pdfPending = 0
    /\ Len(managedImages) > 0
    /\ ~GenerateDisabled(isGenerating, managedImages)
    /\ Len(ImagesToProcess(managedImages)) > 0

-----------------------------------------------------------------------------
\* Every upscaleImage promise that was started eventually settles, one way or
\* the other: the promise of each entry id is settled by its own continuation.
FairSpec ==
    Spec /\ \A id \in Ids : WF_vars(UpscaleResolved(id) \/ UpscaleRejected(id))

Upscaling(id) ==
    /\ mounted
    /\ id \in IdsOf(managedImages)
    /\ Item(managedImages, id).status = "upscaling"

\* C19: when every started transform eventually settles, no entry stays
\* upscaling forever in the mounted component: again and again it is ready, in
\* error, or out of the collection (removed, cleared, or discarded with the
\* component).  An entry has one of three statuses, so "not upscaling" is
\* "ready or error".
C19_NoItemUpscalingForever ==
    \A id \in Ids : []<>(~Upscaling(id))

\* C19 witness: every pasted entry of the collection has left upscaling, one
\* to ready and one to error, and none was removed.
C19_Witness ==
    /\ mounted
    /\ pasteOnly
    /\ nextId = 4
    /\ Len(managedImages) = 3
    /\ ~HasUpscaling(managedImages)
    /\ HasReady(managedImages)
    /\ \E i \in DOMAIN managedImages : managedImages[i].status = "error"

=============================================================================
